---- MODULE Spec2Model ----
(***************************************************************************)
(* The time-stepping engine of smart.model.Model: the simulation clock     *)
(* (t, tn, dt, idx and their histories), the prescribed dt checkpoints,    *)
(* the solution fields u["u"] / u["n"], the time-dependent parameters and  *)
(* the recursive retry of monolithic_solve.                                *)
(*                                                                         *)
(* Times are Decimals quantized to _base_t = 10^-time_precision; the model *)
(* counts them in ticks of _base_t.  A value that has not been quantized   *)
(* yet (a float of the configuration, or float(dt) * dt_scale) is a "raw"  *)
(* value counted in tenths of a tick.  Solution values are counted in      *)
(* units of 1e-8.                                                          *)
(*                                                                         *)
(* monolithic_solve calls itself as its last statement, so a call is a     *)
(* sequence of attempts; each attempt is four steps of the model: Enter    *)
(* (everything up to forward_time_step), UpdateParameters (the call of     *)
(* update_time_dependent_parameters), Solve (the solver returns) and one   *)
(* of the Solver... actions (everything after the solve).                  *)
(*                                                                         *)
(* The second specification, SpecActivate, follows initialize() through    *)
(* _init_4_1_get_active_compartments on the compartments of the model.     *)
(***************************************************************************)
EXTENDS Integers, Sequences, FiniteSets, TLC

VARIABLES
    t,                  \* self.t, ticks
    tn,                 \* self.tn, ticks (-1: not assigned yet)
    dt,                 \* self.dt, ticks
    final_t,            \* self.final_t, ticks
    idx,                \* self.idx
    tvec,               \* self.tvec
    dtvec,              \* self.dtvec
    idx_nl,             \* self.idx_nl
    idx_l,              \* self.idx_l
    reset_dt,           \* self.reset_dt
    failed_to_converge, \* self._failed_to_converge
    failed_solves,      \* self.failed_solves
    config,             \* self.config.solver (the entries read after initialize)
    u,                  \* self.u: "u" and "n", one value per active compartment
    pc,                 \* self.pc: the mutable state of every parameter
    solver,             \* self.solver: what the last solve reported
    phase,              \* position of the program: initializing, idle,
                        \* stepped, solving, solved, retry, raised
    raised,             \* the exception that ended the run ("none" if none)
    cc,                 \* self.cc.Dict.values(): the compartments, in the
                        \* order of their declaration
    active_compartments,  \* self._active_compartments: positions in cc
    all_compartments,   \* self._all_compartments: positions in cc
    activations,        \* calls of _init_4_1_get_active_compartments so far
    all_meshes,         \* self.parent_mesh.all_meshes.values(): the mesh ids
    Fsum,               \* self.Fsum_all: the blocks of the total residual
    Flist,              \* self.Fblocks_all (<< >>: not assembled)
    Jlist,              \* self.Jblocks_all (<< >>: not assembled)
    mesh,               \* what the last call of get_mesh_by_id returned
    called              \* the call of the block system made last: the name
                        \* of the method and its argument

\* The variables of the time-stepping engine.
engine_vars ==
    <<t, tn, dt, final_t, idx, tvec, dtvec, idx_nl, idx_l, reset_dt,
      failed_to_converge, failed_solves, config, u, pc, solver, phase, raised>>

\* The variables of the activation of the compartments.
activation_vars == <<cc, active_compartments, all_compartments, activations>>

\* The variables of the block system.
block_vars == <<all_meshes, Fsum, Flist, Jlist, mesh, called>>

vars == <<engine_vars, activation_vars, block_vars>>

(***************************************************************************)
(* Bounds of the model.                                                    *)
(***************************************************************************)
\* Attempts (solver invocations) of one run that the model follows.
MaxAttempts == 6
\* Largest final time of the configurations, in ticks.
MaxFinalT == 7

(***************************************************************************)
(* Quantization.                                                           *)
(***************************************************************************)
\* Raw units per tick of _base_t.
SubTicks == 10

\* A quantized Decimal seen as an unquantized value.
Raw(ticks) == ticks * SubTicks

\* Decimal(x).quantize(self._base_t): to the nearest tick, ties to even.
rounded_decimal(x) ==
    LET q == x \div SubTicks
        r == x % SubTicks
    IN  IF 2 * r < SubTicks THEN q
        ELSE IF 2 * r > SubTicks THEN q + 1
        ELSE IF q % 2 = 0 THEN q ELSE q + 1

Last(s) == s[Len(s)]
ButLast(s) == SubSeq(s, 1, Len(s) - 1)

(***************************************************************************)
(* The step controller.                                                    *)
(***************************************************************************)
\* set_dt: the value self.dt gets from a raw value.  round(dt, time_precision)
\* leaves a Decimal that is already quantized as it is.
set_dt(x) == rounded_decimal(x)

\* dt_scale = 0.20 of reset_timestep: float(dt) * 0.20, in raw units per tick.
dt_scale == 2

\* A checkpoint adjustment that defers an early-honored checkpoint too: it
\* keeps the checkpoint queued and sets the flag.
adjust_dt_if_prescribed_defers(t_, dt_, q, flag) ==
    IF q = << >>
    THEN [dt |-> dt_, adjust_dt |-> q, reset_dt |-> flag, err |-> FALSE]
    ELSE
    LET tnow == rounded_decimal(Raw(t_))
        dtnow == rounded_decimal(Raw(dt_))
        tnext == rounded_decimal(Raw(tnow + dtnow))
        tadjust == rounded_decimal(q[1][1])
        dtadjust == rounded_decimal(q[1][2])
        new_dt == rounded_decimal(Raw(IF tadjust - tnow > dtadjust
                                      THEN tadjust - tnow ELSE dtadjust))
    IN  IF flag \/ tadjust = tnow
        THEN [dt |-> set_dt(Raw(dtadjust)), adjust_dt |-> Tail(q),
              reset_dt |-> FALSE, err |-> FALSE]
        ELSE IF tadjust < tnow
        THEN [dt |-> dt_, adjust_dt |-> q, reset_dt |-> flag, err |-> TRUE]
        ELSE IF tnow < tadjust /\ tadjust <= tnext
        THEN [dt |-> set_dt(Raw(new_dt)), adjust_dt |-> q,
              reset_dt |-> TRUE, err |-> FALSE]
        ELSE [dt |-> dt_, adjust_dt |-> q, reset_dt |-> flag, err |-> FALSE]

\* adjust_dt_if_prescribed, as a function of the clock, the checkpoint queue q
\* (raw pairs <<tadjust, dtadjust>>) and the flag: the new dt, queue and flag,
\* and whether the AssertionError is raised.
adjust_dt_if_prescribed(t_, dt_, q, flag) ==
    IF q = << >>
    THEN [dt |-> dt_, adjust_dt |-> q, reset_dt |-> flag, err |-> FALSE]
    ELSE
    LET tnow == rounded_decimal(Raw(t_))
        dtnow == rounded_decimal(Raw(dt_))
        tnext == rounded_decimal(Raw(tnow + dtnow))
        tadjust == rounded_decimal(q[1][1])
        dtadjust == rounded_decimal(q[1][2])
        new_dt == rounded_decimal(Raw(IF tadjust - tnow > dtadjust
                                      THEN tadjust - tnow ELSE dtadjust))
    IN  IF flag \/ tadjust = tnow
        THEN [dt |-> set_dt(Raw(dtadjust)), adjust_dt |-> Tail(q),
              reset_dt |-> FALSE, err |-> FALSE]
        ELSE IF tadjust < tnow
        THEN [dt |-> dt_, adjust_dt |-> q, reset_dt |-> flag, err |-> TRUE]
        ELSE IF tnow < tadjust /\ tadjust <= tnext
        THEN IF dtadjust > tadjust - tnow
             THEN [dt |-> set_dt(Raw(new_dt)), adjust_dt |-> Tail(q),
                   reset_dt |-> FALSE, err |-> FALSE]
             ELSE [dt |-> set_dt(Raw(new_dt)), adjust_dt |-> q,
                   reset_dt |-> TRUE, err |-> FALSE]
        ELSE [dt |-> dt_, adjust_dt |-> q, reset_dt |-> flag, err |-> FALSE]

\* A final-time adjustment that never clips.
adjust_dt_if_pass_tfinal_never(t_, dt_, final_) == dt_

\* adjust_dt_if_pass_tfinal: the dt it leaves.
adjust_dt_if_pass_tfinal(t_, dt_, final_) ==
    IF t_ + dt_ > final_ THEN set_dt(Raw(final_ - t_)) ELSE dt_

(***************************************************************************)
(* The solution state.                                                     *)
(***************************************************************************)
\* self._active_compartments, by dof_index.
Compartments == {0, 1}

\* The tolerance of the negativity check, -1e-6.
NegTol == 0 - 100

\* An update_solution that assigns nothing.
update_solution_none(u_, ukeys, unew) == u_

\* update_solution(ukeys, unew): u[ukey] := u[unew] for every ukey.
update_solution(u_, ukeys, unew) ==
    [k \in DOMAIN u_ |-> IF k \in ukeys THEN u_[unew] ELSE u_[k]]

\* A negativity check that looks at the first compartment only.
negVals_first(sol) == sol[0] < NegTol

\* any(curVec < -1e-6) for some active compartment.
negVals(sol) == \E c \in Compartments : sol[c] < NegTol

\* Slightly negative values are set to zero.
clamp(sol) == [c \in Compartments |-> IF sol[c] < 0 THEN 0 ELSE sol[c]]

(***************************************************************************)
(* The time-dependent parameters.                                          *)
(***************************************************************************)
\* The parameters of the model, self.pc, in the order of the loop: type and
\* update path of each.
ParameterOrder ==
    <<"k_const", "k_expr", "k_direct", "k_file", "k_preint", "k_file_preint",
      "k_preint_sym", "k_preint_lin">>

parameters ==
    [k_const       |-> [type |-> "constant", is_time_dependent |-> FALSE,
                        use_preintegration |-> FALSE,
                        has_preint_sym_expr |-> FALSE],
     k_expr        |-> [type |-> "expression", is_time_dependent |-> TRUE,
                        use_preintegration |-> FALSE,
                        has_preint_sym_expr |-> FALSE],
     k_direct      |-> [type |-> "expression", is_time_dependent |-> TRUE,
                        use_preintegration |-> FALSE,
                        has_preint_sym_expr |-> FALSE],
     k_file        |-> [type |-> "from_file", is_time_dependent |-> TRUE,
                        use_preintegration |-> FALSE,
                        has_preint_sym_expr |-> FALSE],
     k_preint      |-> [type |-> "expression", is_time_dependent |-> TRUE,
                        use_preintegration |-> TRUE,
                        has_preint_sym_expr |-> FALSE],
     k_file_preint |-> [type |-> "from_file", is_time_dependent |-> TRUE,
                        use_preintegration |-> TRUE,
                        has_preint_sym_expr |-> FALSE],
     k_preint_sym  |-> [type |-> "expression", is_time_dependent |-> TRUE,
                        use_preintegration |-> TRUE,
                        has_preint_sym_expr |-> TRUE],
     k_preint_lin  |-> [type |-> "expression", is_time_dependent |-> TRUE,
                        use_preintegration |-> TRUE,
                        has_preint_sym_expr |-> TRUE]]

ParameterNames == DOMAIN parameters

\* The rate of the parameters k_direct, k_preint and k_preint_lin, which is
\* constant in time.
ConstantRate == 3

\* parameter.sym_expr at time x: k_expr is t + 1, k_preint_sym has the rate
\* 2*t, the others the constant rate.
sym_expr(p, x) ==
    IF p = "k_expr" THEN x + 1
    ELSE IF p = "k_preint_sym" THEN 2 * x
    ELSE ConstantRate

\* parameter.preint_sym_expr at time x, the antiderivative of sym_expr.
preint_sym_expr(p, x) ==
    IF p = "k_preint_sym" THEN x * x ELSE ConstantRate * x

\* integrate.quad(sym_expr, a, b).
quad(p, a, b) == preint_sym_expr(p, b) - preint_sym_expr(p, a)

\* np.nan.
NaN == 0 - 999999

\* parameter.sampling_data (k_file: the values 10 * (t + 1)) and
\* parameter.preint_sampling_data (k_file_preint: the integral of the
\* constant rate), sampled at lo, in the middle and at hi.
sampling_data(p, lo, hi) ==
    LET mid == (lo + hi) \div 2
        val(x) == IF p = "k_file" THEN 10 * (x + 1) ELSE ConstantRate * x
    IN  << <<lo, val(lo)>>, <<mid, val(mid)>>, <<hi, val(hi)>> >>

\* np.interp(x, data[:, 0], data[:, 1], left=np.nan, right=np.nan).
interp(x, data) ==
    IF x < data[1][1] \/ x > Last(data)[1] THEN NaN
    ELSE LET k == CHOOSE j \in 1..(Len(data) - 1) :
                      /\ data[j][1] <= x
                      /\ x <= data[j + 1][1]
                      /\ \A i \in 1..(j - 1) : data[i + 1][1] < x
         IN  IF data[k + 1][1] = data[k][1] THEN data[k + 1][2]
             ELSE data[k][2]
                    + ((x - data[k][1]) * (data[k + 1][2] - data[k][2]))
                          \div (data[k + 1][1] - data[k][1])

\* The increment b - a of the integral, not divided by dt.
rate_undivided(a, b, dt_) == IF a = NaN \/ b = NaN THEN NaN ELSE b - a

\* float((b - a) / dt), a NaN operand giving NaN.
rate(a, b, dt_) == IF a = NaN \/ b = NaN THEN NaN ELSE (b - a) \div dt_

\* The exception one pass of the loop over parameter p raises, or "none".
update_parameter_raises(p, s, t_, dt_, tn_) ==
    IF ~parameters[p].is_time_dependent \/ parameters[p].type # "from_file"
    THEN "none"
    ELSE IF ~parameters[p].use_preintegration
    THEN IF t_ < s.sampling_data[1][1] \/ t_ > Last(s.sampling_data)[1]
         THEN "Exception"
         ELSE IF interp(t_, s.sampling_data) = NaN THEN "AssertionError"
         ELSE "none"
    ELSE IF rate(interp(tn_, s.sampling_data), interp(t_, s.sampling_data),
                 dt_) = NaN
         THEN "AssertionError"
         ELSE "none"

\* What one pass of the loop over the time-dependent parameter p assigns,
\* with the aliases t_, dt_, tn_.
assigned(p, s, t_, dt_, tn_) ==
    IF parameters[p].type = "from_file"
    THEN LET new_value ==
                 IF ~parameters[p].use_preintegration
                 THEN interp(t_, s.sampling_data)
                 ELSE rate(interp(tn_, s.sampling_data),
                           interp(t_, s.sampling_data), dt_)
         IN  [s EXCEPT !.value = new_value,
                       !.value_vector = Append(@, <<t_, new_value>>)]
    ELSE IF ~parameters[p].use_preintegration
    THEN LET v == sym_expr(p, t_)
         IN  [s EXCEPT !.value = v,
                       !.value_vector = Append(@, <<t_, v>>)]
    ELSE LET a == IF parameters[p].has_preint_sym_expr
                  THEN preint_sym_expr(p, tn_) ELSE Last(s.int_vec)
             b == IF parameters[p].has_preint_sym_expr
                  THEN preint_sym_expr(p, t_) ELSE a + quad(p, tn_, t_)
             new_value == rate(a, b, dt_)
         IN  [s EXCEPT !.value = new_value,
                       !.value_vector = Append(@, <<t_, new_value>>),
                       !.int_vec = IF parameters[p].has_preint_sym_expr
                                   THEN @ ELSE Append(@, b)]

\* A pass of the loop that assigns before it checks.
update_parameter_unchecked(p, s, t_, dt_, tn_) ==
    IF ~parameters[p].is_time_dependent THEN s
    ELSE assigned(p, s, t_, dt_, tn_)

\* One pass of the loop of update_time_dependent_parameters over parameter p
\* in state s: the parameter after the pass, also if the pass raises.
update_parameter(p, s, t_, dt_, tn_) ==
    IF ~parameters[p].is_time_dependent THEN s
    ELSE IF update_parameter_raises(p, s, t_, dt_, tn_) # "none" THEN s
    ELSE assigned(p, s, t_, dt_, tn_)

RECURSIVE update_loop(_, _, _, _, _)
\* The loop from its k-th parameter on: the parameters and the exception
\* that ended the loop, or "none".
update_loop(pc_, k, t_, dt_, tn_) ==
    IF k > Len(ParameterOrder) THEN [pc |-> pc_, raised |-> "none"]
    ELSE LET p == ParameterOrder[k]
             exc == update_parameter_raises(p, pc_[p], t_, dt_, tn_)
             pc1 == [pc_ EXCEPT ![p] = update_parameter(p, @, t_, dt_, tn_)]
         IN  IF exc # "none" THEN [pc |-> pc1, raised |-> exc]
             ELSE update_loop(pc1, k + 1, t_, dt_, tn_)

update_time_dependent_parameters(pc_, t_, dt_, tn_) ==
    update_loop(pc_, 1, t_, dt_, tn_)

(***************************************************************************)
(* Configurations and the state after initialize().                        *)
(***************************************************************************)
\* config.solver["initial_dt"], raw.
InitialDts == {4, 16, 30, 52}

\* config.solver["final_t"], raw.
FinalTs == {Raw(MaxFinalT) - 6, Raw(MaxFinalT)}

\* config.solver["adjust_dt"]: None or empty, or a list of (t, dt) pairs, raw.
AdjustDts ==
    { << >>,
      << <<46, 14>> >>,
      << <<30, 10>>, <<60, 40>> >>,
      << <<20, 50>>, <<30, 10>> >>,
      << <<20, Raw(MaxFinalT) - 10>>, <<30, 10>> >> }

\* The time ranges of the data files of k_file and k_file_preint, in ticks:
\* both cover the run, or one of them ends early, or one starts late.
SamplingWindows ==
    { [k_file |-> <<0, MaxFinalT>>, k_file_preint |-> <<0, MaxFinalT>>],
      [k_file |-> <<0, 4>>, k_file_preint |-> <<0, MaxFinalT>>],
      [k_file |-> <<0, MaxFinalT>>, k_file_preint |-> <<0, 4>>],
      [k_file |-> <<0, MaxFinalT>>, k_file_preint |-> <<1, MaxFinalT>>] }

\* The value of parameter p after construction, w being the time range of
\* its data file.
value0(p, w) ==
    IF p = "k_file" THEN sampling_data(p, w[1], w[2])[1][2]
    ELSE IF p = "k_file_preint" THEN ConstantRate
    ELSE sym_expr(p, 0)

\* The engine after the first statements of initialize(), for one
\* configuration.
Initialized(initial_dt, cfg_final_t, adj, restart, neg, snes, win) ==
    /\ t = rounded_decimal(0)
    /\ tn = 0 - 1
    /\ dt = rounded_decimal(initial_dt)
    /\ final_t = rounded_decimal(cfg_final_t)
    /\ idx = 0
    /\ tvec = <<rounded_decimal(0)>>
    /\ dtvec = <<rounded_decimal(initial_dt)>>
    /\ idx_nl = << >>
    /\ idx_l = << >>
    /\ reset_dt = FALSE
    /\ failed_to_converge = FALSE
    /\ failed_solves = << >>
    /\ config = [adjust_dt |-> adj,
                 attempt_timestep_restart_on_divergence |-> restart,
                 reset_timestep_for_negative_solution |-> neg,
                 use_snes |-> snes]
    /\ u = [k \in {"u", "n"} |-> [c \in Compartments |-> 1]]
    /\ pc = [p \in ParameterNames |->
                LET w == IF p \in DOMAIN win THEN win[p] ELSE <<0, 0>>
                IN  [value |-> value0(p, w),
                     value_vector |-> << <<0, value0(p, w)>> >>,
                     int_vec |-> <<0>>,
                     sampling_data |-> IF parameters[p].type = "from_file"
                                       THEN sampling_data(p, w[1], w[2])
                                       ELSE << >>]]
    /\ solver = [converged |-> FALSE, its |-> 0, ksp_its |-> 0, reason |-> 0]
    /\ raised = "none"

\* The block system is not followed: one mesh, no forms, nothing assembled.
NoBlocks ==
    /\ all_meshes = <<10>>
    /\ Fsum = {}
    /\ Flist = << >>
    /\ Jlist = << >>
    /\ mesh = 0 - 1
    /\ called = <<"none">>

\* The state after initialize(): the model has the two compartments of
\* Compartments, one species each, both active.
Init ==
    \E initial_dt \in InitialDts, cfg_final_t \in FinalTs, adj \in AdjustDts,
       restart \in BOOLEAN, neg \in BOOLEAN, snes \in BOOLEAN,
       win \in SamplingWindows :
        /\ Initialized(initial_dt, cfg_final_t, adj, restart, neg, snes, win)
        /\ phase = "idle"
        /\ cc = [k \in 1..2 |->
                    [num_species |-> 1, num_vertices |-> 2, dof_index |-> k - 1]]
        /\ active_compartments = <<1, 2>>
        /\ all_compartments = <<1, 2>>
        /\ activations = 1
        /\ NoBlocks

(***************************************************************************)
(* The clock operations on the engine's state.  A state s is the record of *)
(* the fields the operation reads and writes.                              *)
(***************************************************************************)
Engine ==
    [t |-> t, tn |-> tn, dt |-> dt, idx |-> idx, tvec |-> tvec, dtvec |-> dtvec,
     idx_nl |-> idx_nl, idx_l |-> idx_l, failed_solves |-> failed_solves, u |-> u]

\* A step forward that does not save the previous time.
forward_time_step_keeps_tn(s) ==
    LET dt1 == rounded_decimal(Raw(s.dt))
        t1 == rounded_decimal(Raw(s.t + dt1))
    IN  [s EXCEPT !.dt = dt1, !.t = t1,
                  !.tvec = Append(@, t1), !.dtvec = Append(@, dt1)]

\* forward_time_step.
forward_time_step(s) ==
    LET dt1 == rounded_decimal(Raw(s.dt))
        tn1 == rounded_decimal(Raw(s.t))
        t1 == rounded_decimal(Raw(s.t + dt1))
    IN  [s EXCEPT !.dt = dt1, !.tn = tn1, !.t = t1,
                  !.tvec = Append(@, t1), !.dtvec = Append(@, dt1)]

\* A rollback that records the clock after it was changed.
reset_timestep_records_late(s, reason) ==
    [s EXCEPT !.t = s.tvec[Len(s.tvec) - 1],
              !.dt = set_dt(Last(s.dtvec) * dt_scale),
              !.failed_solves = Append(@, <<s.idx, Last(s.idx_nl), Last(s.idx_l),
                                            s.tvec[Len(s.tvec) - 1],
                                            set_dt(Last(s.dtvec) * dt_scale),
                                            reason>>),
              !.idx = s.idx - 1,
              !.idx_nl = ButLast(@),
              !.idx_l = ButLast(@),
              !.tvec = ButLast(@),
              !.dtvec = ButLast(@),
              !.u = update_solution(s.u, {"u"}, "n")]

\* A rollback that leaves the failed time in t.
reset_timestep_keeps_t(s, reason) ==
    [s EXCEPT !.dt = set_dt(Last(s.dtvec) * dt_scale),
              !.failed_solves = Append(@, <<s.idx, Last(s.idx_nl), Last(s.idx_l),
                                            Last(s.tvec), Last(s.dtvec), reason>>),
              !.idx = s.idx - 1,
              !.idx_nl = ButLast(@),
              !.idx_l = ButLast(@),
              !.tvec = ButLast(@),
              !.dtvec = ButLast(@),
              !.u = update_solution(s.u, {"u"}, "n")]

\* A rollback that calls update_solution with its default arguments.
reset_timestep_copies_forward(s, reason) ==
    [s EXCEPT !.t = s.tvec[Len(s.tvec) - 1],
              !.dt = set_dt(Last(s.dtvec) * dt_scale),
              !.failed_solves = Append(@, <<s.idx, Last(s.idx_nl), Last(s.idx_l),
                                            Last(s.tvec), Last(s.dtvec), reason>>),
              !.idx = s.idx - 1,
              !.idx_nl = ButLast(@),
              !.idx_l = ButLast(@),
              !.tvec = ButLast(@),
              !.dtvec = ButLast(@),
              !.u = update_solution(s.u, {"n"}, "u")]

\* A rollback that retries with the dt of the failed attempt.
reset_timestep_keeps_dt(s, reason) ==
    [s EXCEPT !.t = s.tvec[Len(s.tvec) - 1],
              !.dt = Last(s.dtvec),
              !.failed_solves = Append(@, <<s.idx, Last(s.idx_nl), Last(s.idx_l),
                                            Last(s.tvec), Last(s.dtvec), reason>>),
              !.idx = s.idx - 1,
              !.idx_nl = ButLast(@),
              !.idx_l = ButLast(@),
              !.tvec = ButLast(@),
              !.dtvec = ButLast(@),
              !.u = update_solution(s.u, {"u"}, "n")]

\* A rollback that keeps the iteration counts of the failed attempt.
reset_timestep_keeps_iterations(s, reason) ==
    [s EXCEPT !.t = s.tvec[Len(s.tvec) - 1],
              !.dt = set_dt(Last(s.dtvec) * dt_scale),
              !.failed_solves = Append(@, <<s.idx, Last(s.idx_nl), Last(s.idx_l),
                                            Last(s.tvec), Last(s.dtvec), reason>>),
              !.idx = s.idx - 1,
              !.tvec = ButLast(@),
              !.dtvec = ButLast(@),
              !.u = update_solution(s.u, {"u"}, "n")]

\* reset_timestep(dt_scale=0.20), the solver's converged reason being `reason`.
reset_timestep(s, reason) ==
    [s EXCEPT !.t = s.tvec[Len(s.tvec) - 1],
              !.dt = set_dt(Last(s.dtvec) * dt_scale),
              !.failed_solves = Append(@, <<s.idx, Last(s.idx_nl), Last(s.idx_l),
                                            Last(s.tvec), Last(s.dtvec), reason>>),
              !.idx = s.idx - 1,
              !.idx_nl = ButLast(@),
              !.idx_l = ButLast(@),
              !.tvec = ButLast(@),
              !.dtvec = ButLast(@),
              !.u = update_solution(s.u, {"u"}, "n")]

\* The engine's variables take the values of the record s.
Becomes(s) ==
    /\ t' = s.t
    /\ tn' = s.tn
    /\ dt' = s.dt
    /\ idx' = s.idx
    /\ tvec' = s.tvec
    /\ dtvec' = s.dtvec
    /\ idx_nl' = s.idx_nl
    /\ idx_l' = s.idx_l
    /\ failed_solves' = s.failed_solves
    /\ u' = s.u

(***************************************************************************)
(* monolithic_solve, first part: up to the call of the solver.             *)
(***************************************************************************)
\* The checkpoint adjustment of this attempt (skipped on a retry).
Prescribed ==
    IF failed_to_converge
    THEN [dt |-> dt, adjust_dt |-> config.adjust_dt, reset_dt |-> reset_dt,
          err |-> FALSE]
    ELSE adjust_dt_if_prescribed(t, dt, config.adjust_dt, reset_dt)

\* The dt of this attempt, after both adjustments.
ProposedDt ==
    IF failed_to_converge THEN dt
    ELSE adjust_dt_if_pass_tfinal(t, Prescribed.dt, final_t)

CanEnter ==
    /\ phase \in {"idle", "retry"}
    /\ idx + Len(failed_solves) < MaxAttempts

\* adjust_dt_if_prescribed raises: the head checkpoint lies in the past.
EnterCheckpointPassed ==
    /\ CanEnter
    /\ Prescribed.err
    /\ idx' = idx + 1
    /\ phase' = "raised"
    /\ raised' = "AssertionError"
    /\ UNCHANGED <<t, tn, dt, final_t, tvec, dtvec, idx_nl, idx_l, reset_dt,
                   failed_to_converge, failed_solves, config, u, pc, solver>>
    /\ UNCHANGED activation_vars
    /\ UNCHANGED block_vars

\* raise ValueError("dt is <= 0").
EnterDtNotPositive ==
    /\ CanEnter
    /\ ~Prescribed.err
    /\ ProposedDt <= 0
    /\ idx' = idx + 1
    /\ dt' = ProposedDt
    /\ config' = [config EXCEPT !.adjust_dt = Prescribed.adjust_dt]
    /\ reset_dt' = Prescribed.reset_dt
    /\ phase' = "raised"
    /\ raised' = "ValueError"
    /\ UNCHANGED <<t, tn, final_t, tvec, dtvec, idx_nl, idx_l,
                   failed_to_converge, failed_solves, u, pc, solver>>
    /\ UNCHANGED activation_vars
    /\ UNCHANGED block_vars

\* An attempt that advances the clock without looking at its dt.
Enter_unchecked ==
    /\ CanEnter
    /\ ~Prescribed.err
    /\ Becomes(forward_time_step([Engine EXCEPT !.idx = idx + 1,
                                                !.dt = ProposedDt]))
    /\ config' = [config EXCEPT !.adjust_dt = Prescribed.adjust_dt]
    /\ reset_dt' = Prescribed.reset_dt
    /\ phase' = "stepped"
    /\ UNCHANGED <<final_t, failed_to_converge, pc, raised, solver>>
    /\ UNCHANGED activation_vars
    /\ UNCHANGED block_vars

\* The dt of the attempt is positive: the clock is advanced.
Enter ==
    /\ CanEnter
    /\ ~Prescribed.err
    /\ ProposedDt > 0
    /\ Becomes(forward_time_step([Engine EXCEPT !.idx = idx + 1,
                                                !.dt = ProposedDt]))
    /\ config' = [config EXCEPT !.adjust_dt = Prescribed.adjust_dt]
    /\ reset_dt' = Prescribed.reset_dt
    /\ phase' = "stepped"
    /\ UNCHANGED <<final_t, failed_to_converge, pc, raised, solver>>
    /\ UNCHANGED activation_vars
    /\ UNCHANGED block_vars

\* An update of the parameters that stores its alias of t in self.tn.
UpdateParameters_moves_tn ==
    /\ phase = "stepped"
    /\ LET r == update_time_dependent_parameters(pc, t, dt, tn)
       IN  /\ r.raised = "none"
           /\ pc' = r.pc
    /\ tn' = t
    /\ phase' = "solving"
    /\ UNCHANGED <<t, dt, final_t, idx, tvec, dtvec, idx_nl, idx_l, reset_dt,
                   failed_to_converge, failed_solves, config, u, solver, raised>>
    /\ UNCHANGED activation_vars
    /\ UNCHANGED block_vars

\* An update of the parameters at the time before the clock was advanced.
UpdateParameters_stale ==
    /\ phase = "stepped"
    /\ LET r == update_time_dependent_parameters(pc, tn, dt, tn)
       IN  /\ r.raised = "none"
           /\ pc' = r.pc
    /\ phase' = "solving"
    /\ UNCHANGED <<t, tn, dt, final_t, idx, tvec, dtvec, idx_nl, idx_l, reset_dt,
                   failed_to_converge, failed_solves, config, u, solver, raised>>
    /\ UNCHANGED activation_vars
    /\ UNCHANGED block_vars

\* update_time_dependent_parameters returns: the solver is called.
UpdateParameters ==
    /\ phase = "stepped"
    /\ LET r == update_time_dependent_parameters(pc, t, dt, tn)
       IN  /\ r.raised = "none"
           /\ pc' = r.pc
    /\ phase' = "solving"
    /\ UNCHANGED <<t, tn, dt, final_t, idx, tvec, dtvec, idx_nl, idx_l, reset_dt,
                   failed_to_converge, failed_solves, config, u, solver, raised>>
    /\ UNCHANGED activation_vars
    /\ UNCHANGED block_vars

\* update_time_dependent_parameters raises in the middle of its loop.
UpdateParametersRaises ==
    /\ phase = "stepped"
    /\ LET r == update_time_dependent_parameters(pc, t, dt, tn)
       IN  /\ r.raised # "none"
           /\ pc' = r.pc
           /\ raised' = r.raised
    /\ phase' = "raised"
    /\ UNCHANGED <<t, tn, dt, final_t, idx, tvec, dtvec, idx_nl, idx_l, reset_dt,
                   failed_to_converge, failed_solves, config, u, solver>>
    /\ UNCHANGED activation_vars
    /\ UNCHANGED block_vars

(***************************************************************************)
(* monolithic_solve, second part: the solver runs and returns.             *)
(***************************************************************************)
\* What the solver reports: solver.converged, solver.its, solver.ksp.its,
\* solver.getConvergedReason().
SolverResults ==
    { [converged |-> TRUE, its |-> 2, ksp_its |-> 7, reason |-> 3],
      [converged |-> FALSE, its |-> 9, ksp_its |-> 4, reason |-> 0 - 5] }

Solution(a, b) == [c \in Compartments |-> IF c = 0 THEN a ELSE b]

\* The solutions the solver leaves in u["u"]: positive, slightly negative
\* (-1e-8), at the tolerance (-1e-6), too negative (-1e-3).
Solutions ==
    { Solution(5, 5), Solution(0 - 1, 5), Solution(NegTol, 0 - 1),
      Solution(5, 0 - 100000) }

\* self.solver.solve(None, self._ubackend) returns (or dolfin's solver, if
\* use_snes is off): the solution is in u["u"], the solver holds its report.
Solve(res, sol) ==
    /\ phase = "solving"
    /\ u' = [u EXCEPT !["u"] = sol]
    /\ solver' = res
    /\ phase' = "solved"
    /\ UNCHANGED <<t, tn, dt, final_t, idx, tvec, dtvec, idx_nl, idx_l, reset_dt,
                   failed_to_converge, failed_solves, config, pc, raised>>
    /\ UNCHANGED activation_vars
    /\ UNCHANGED block_vars

\* The engine after the two appends to idx_nl and idx_l.
Solved ==
    [Engine EXCEPT !.idx_nl = Append(@, solver.its),
                   !.idx_l = Append(@, solver.ksp_its)]

\* A negativity check that ignores its option.
Rejected_always == negVals(u["u"])

\* The negativity check rejects the attempt.
Rejected ==
    config.reset_timestep_for_negative_solution /\ negVals(u["u"])

\* The engine after the negativity check has let the solution pass.
Checked ==
    IF config.reset_timestep_for_negative_solution
    THEN [Solved EXCEPT !.u = [@ EXCEPT !["u"] = clamp(@)]]
    ELSE Solved

\* A too negative solution: roll back and call monolithic_solve again.
SolverNegative ==
    /\ phase = "solved"
    /\ config.use_snes
    /\ Rejected
    /\ Becomes(reset_timestep(Solved, solver.reason))
    /\ failed_to_converge' = TRUE
    /\ phase' = "retry"
    /\ UNCHANGED <<final_t, reset_dt, config, pc, raised, solver>>
    /\ UNCHANGED activation_vars
    /\ UNCHANGED block_vars

\* The solver diverged and restarts are off: raise RuntimeError.
SolverDivergedFatal ==
    /\ phase = "solved"
    /\ config.use_snes
    /\ ~Rejected
    /\ ~solver.converged
    /\ ~config.attempt_timestep_restart_on_divergence
    /\ Becomes(Checked)
    /\ phase' = "raised"
    /\ raised' = "RuntimeError"
    /\ UNCHANGED <<final_t, reset_dt, failed_to_converge, config, pc, solver>>
    /\ UNCHANGED activation_vars
    /\ UNCHANGED block_vars

\* A restart on divergence that does not mark the step as failed.
SolverDiverged_unmarked ==
    /\ phase = "solved"
    /\ config.use_snes
    /\ ~Rejected
    /\ ~solver.converged
    /\ config.attempt_timestep_restart_on_divergence
    /\ Becomes(reset_timestep(Checked, solver.reason))
    /\ phase' = "retry"
    /\ UNCHANGED <<final_t, reset_dt, failed_to_converge, config, pc, raised,
                   solver>>
    /\ UNCHANGED activation_vars
    /\ UNCHANGED block_vars

\* The solver diverged: roll back and call monolithic_solve again.
SolverDiverged ==
    /\ phase = "solved"
    /\ config.use_snes
    /\ ~Rejected
    /\ ~solver.converged
    /\ config.attempt_timestep_restart_on_divergence
    /\ Becomes(reset_timestep(Checked, solver.reason))
    /\ failed_to_converge' = TRUE
    /\ phase' = "retry"
    /\ UNCHANGED <<final_t, reset_dt, config, pc, raised, solver>>
    /\ UNCHANGED activation_vars
    /\ UNCHANGED block_vars

\* An accepted step that leaves _failed_to_converge as it is.
SolverConverged_keeps_flag ==
    /\ phase = "solved"
    /\ config.use_snes
    /\ ~Rejected
    /\ solver.converged
    /\ Becomes([Checked EXCEPT !.u = update_solution(@, {"n"}, "u")])
    /\ phase' = "idle"
    /\ UNCHANGED <<final_t, reset_dt, failed_to_converge, config, pc, raised,
                   solver>>
    /\ UNCHANGED activation_vars
    /\ UNCHANGED block_vars

\* The solver converged: the step is accepted, u is copied into n.
SolverConverged ==
    /\ phase = "solved"
    /\ config.use_snes
    /\ ~Rejected
    /\ solver.converged
    /\ Becomes([Checked EXCEPT !.u = update_solution(@, {"n"}, "u")])
    /\ failed_to_converge' = FALSE
    /\ phase' = "idle"
    /\ UNCHANGED <<final_t, reset_dt, config, pc, raised, solver>>
    /\ UNCHANGED activation_vars
    /\ UNCHANGED block_vars

\* use_snes is off: after dolfin's solver, update_solution.
DolfinSolved ==
    /\ phase = "solved"
    /\ ~config.use_snes
    /\ Becomes([Engine EXCEPT !.u = update_solution(@, {"n"}, "u")])
    /\ phase' = "idle"
    /\ UNCHANGED <<final_t, reset_dt, failed_to_converge, config, pc, raised,
                   solver>>
    /\ UNCHANGED activation_vars
    /\ UNCHANGED block_vars

Next ==
    \/ EnterCheckpointPassed
    \/ EnterDtNotPositive
    \/ Enter
    \/ UpdateParameters
    \/ UpdateParametersRaises
    \/ \E res \in SolverResults, sol \in Solutions : Solve(res, sol)
    \/ SolverNegative
    \/ SolverDivergedFatal
    \/ SolverDiverged
    \/ SolverConverged
    \/ DolfinSolved

Spec == Init /\ [][Next]_vars

(***************************************************************************)
(* initialize(): _init_4_1_get_active_compartments.                        *)
(***************************************************************************)
\* The compartments a model declares, the species of a compartment and the
\* calls of the function that the model follows.
MaxCompartments == 3
MaxSpecies == 2
MaxActivations == 2

\* The vertices of the mesh of a compartment.
Vertices == {2, 3}

\* dof_index of a compartment that has not been assigned one.
NoIndex == 0 - 1

\* compartment.num_dofs: one unknown per species and vertex.
num_dofs(compartment) == compartment.num_species * compartment.num_vertices

RECURSIVE scan(_, _, _, _)
\* The first loop from position it_idx (counted from 0) on: rm_idx, the
\* positions in list of the compartments without species.
scan(cc_, list, it_idx, rm_idx) ==
    IF it_idx >= Len(list) THEN rm_idx
    ELSE scan(cc_, list, it_idx + 1,
              IF cc_[list[it_idx + 1]].num_species < 1
              THEN Append(rm_idx, it_idx) ELSE rm_idx)

\* del list[k], k counted from 0, a negative k from the end of the list; a
\* k outside the list deletes nothing.
del(list, k) ==
    LET j == IF k < 0 THEN k + Len(list) ELSE k
    IN  IF j < 0 \/ j >= Len(list) THEN list
        ELSE [n \in 1..(Len(list) - 1) |->
                  IF n <= j THEN list[n] ELSE list[n + 1]]

RECURSIVE remove_uncompensated(_, _, _)
\* A second loop that does not adjust the indices after deleting.
remove_uncompensated(list, rm_idx, i) ==
    IF i >= Len(rm_idx) THEN list
    ELSE remove_uncompensated(del(list, rm_idx[i + 1]), rm_idx, i + 1)

RECURSIVE remove(_, _, _)
\* The second loop from i on: the list without the compartments of rm_idx.
remove(list, rm_idx, i) ==
    IF i >= Len(rm_idx) THEN list
    ELSE remove(del(list, rm_idx[i + 1]),
                [k \in DOMAIN rm_idx |-> rm_idx[k] - 1],
                i + 1)

\* The third loop: every compartment of list gets its position in list
\* (counted from 0) as dof_index.
enumerate(cc_, list) ==
    [k \in DOMAIN cc_ |->
        IF \E j \in DOMAIN list : list[j] = k
        THEN [cc_[k] EXCEPT !.dof_index =
                  (CHOOSE j \in DOMAIN list : list[j] = k) - 1]
        ELSE cc_[k]]

\* _init_4_1_get_active_compartments.
Activate ==
    /\ phase = "initializing"
    /\ activations < MaxActivations
    /\ LET list == [k \in 1..Len(cc) |-> k]
           active == remove(list, scan(cc, list, 0, << >>), 0)
       IN  /\ active_compartments' = active
           /\ all_compartments' = list
           /\ cc' = enumerate(cc, active)
    /\ activations' = activations + 1
    /\ UNCHANGED engine_vars
    /\ UNCHANGED block_vars

\* initialize() has assigned the clock and reaches _init_4, the model
\* declaring up to MaxCompartments compartments.
InitActivate ==
    /\ Initialized(16, Raw(MaxFinalT), << >>, TRUE, TRUE, TRUE,
                   [k_file |-> <<0, MaxFinalT>>,
                    k_file_preint |-> <<0, MaxFinalT>>])
    /\ phase = "initializing"
    /\ \E n \in 0..MaxCompartments :
          cc \in [1..n -> [num_species : 0..MaxSpecies,
                           num_vertices : Vertices,
                           dof_index : {NoIndex}]]
    /\ active_compartments = << >>
    /\ all_compartments = << >>
    /\ activations = 0
    /\ NoBlocks

NextActivate == Activate

SpecActivate == InitActivate /\ [][NextActivate]_vars

(***************************************************************************)
(* The block system: get_block_F, get_block_J and get_mesh_by_id.          *)
(*                                                                         *)
(* A form is the sequence of its sub-forms by domain of integration, each  *)
(* with the id of its mesh; the form without sub-forms is the empty form.  *)
(* sub_forms_by_domain returns one form per domain that the form has       *)
(* integrals on, so no sub-form is empty.  A block of the residual is the  *)
(* form that multiplies the test function of one compartment (its part).   *)
(***************************************************************************)
\* The active compartments of the models whose block system is followed.
MaxBlocks == 2

\* The ids of the parent mesh and of a child mesh.
MeshIds == {10, 11}

\* self.parent_mesh.all_meshes.values(), in the orders of registration.
MeshOrders == { <<10>>, <<10, 11>>, <<11, 10>> }

\* What a call returns that finds nothing to return.
NoMesh == 0 - 1

\* The forms of a block: empty, with integrals on the parent mesh, with
\* integrals on both meshes.
Forms ==
    { << >>,
      << [mesh_id |-> 10] >>,
      << [mesh_id |-> 10], [mesh_id |-> 11] >> }

\* len(u): one function per active compartment.
NumBlocks == Len(active_compartments)

\* get_mesh_by_id(mesh_id) on the meshes `meshes`: the mesh returned (None
\* as NoMesh) and the exception raised, or "none".
get_mesh_by_id(meshes, mesh_id) ==
    IF meshes = << >> THEN [mesh |-> NoMesh, raised |-> "none"]
    ELSE IF meshes[1] = mesh_id THEN [mesh |-> meshes[1], raised |-> "none"]
    ELSE [mesh |-> NoMesh, raised |-> "ValueError"]

RECURSIVE extract_blocks(_)
\* d.extract_blocks(Fsum): the blocks of the residual, ordered by part.
extract_blocks(F) ==
    IF F = {} THEN << >>
    ELSE LET b == CHOOSE x \in F : \A y \in F : x.part <= y.part
         IN  <<b>> \o extract_blocks(F \ {b})

\* expand_derivatives(d.derivative(Fi, uj)): the block Fi depends on the
\* function of its own compartment and, if coupled, on all the others.
derivative(Fi, j) == IF Fi.coupled \/ Fi.part = j THEN Fi.form ELSE << >>

\* A get_block_F without the placeholders: the blocks as they were found.
place_blocks_unplaced(Fblock, n) ==
    [k \in 1..Len(Fblock) |-> [kind |-> "Form", form |-> Fblock[k].form]]

\* get_block_F, lines 1368-1373: the blocks at the index of their part,
\* None at the indices without a block.
place_blocks(Fblock, n) ==
    IF Len(Fblock) # n
    THEN [k \in 1..n |->
            IF \E j \in DOMAIN Fblock : Fblock[j].part = k - 1
            THEN [kind |-> "Form",
                  form |-> Fblock[CHOOSE j \in DOMAIN Fblock :
                                      Fblock[j].part = k - 1].form]
            ELSE [kind |-> "None"]]
    ELSE [k \in 1..n |-> [kind |-> "Form", form |-> Fblock[k].form]]

\* get_block_F(Fsum, u), n being len(u): Flist and the exception raised.
get_block_F(F, n) ==
    LET Fblock == place_blocks(extract_blocks(F), n)
        Fs(Fi) == [k \in DOMAIN Fi.form |->
                      [kind |-> "Form", mesh_id |-> Fi.form[k].mesh_id]]
    IN  IF Len(Fblock) # n
        THEN [Flist |-> << >>, raised |-> "AssertionError"]
        ELSE [Flist |-> [k \in 1..n |->
                            IF Fblock[k].kind = "None" \/ Fblock[k].form = << >>
                            THEN << [kind |-> "None"] >>
                            ELSE Fs(Fblock[k])],
              raised |-> "none"]

\* get_block_J(Fsum, u), n being len(u): Jlist and the exception raised.
get_block_J(F, n) ==
    LET Fblock == extract_blocks(F)
        J == [k \in 1..(Len(Fblock) * n) |->
                 derivative(Fblock[((k - 1) \div n) + 1], (k - 1) % n)]
        Js(Ji) == [k \in DOMAIN Ji |->
                      [kind |-> "Form", mesh_id |-> Ji[k].mesh_id]]
    IN  IF Len(J) # n * n
        THEN [Jlist |-> << >>, raised |-> "AssertionError"]
        ELSE [Jlist |-> [k \in DOMAIN J |->
                            IF J[k] = << >> THEN << [kind |-> "Form(2, 0)"] >>
                            ELSE Js(J[k])],
              raised |-> "none"]

\* self.Fblocks_all = self.get_block_F(self.Fsum_all, u).
GetBlockF ==
    /\ phase = "initializing"
    /\ LET r == get_block_F(Fsum, NumBlocks)
       IN  /\ Flist' = IF r.raised = "none" THEN r.Flist ELSE Flist
           /\ raised' = r.raised
           /\ phase' = IF r.raised = "none" THEN phase ELSE "raised"
    /\ called' = <<"get_block_F">>
    /\ UNCHANGED <<all_meshes, Fsum, Jlist, mesh>>
    /\ UNCHANGED <<t, tn, dt, final_t, idx, tvec, dtvec, idx_nl, idx_l, reset_dt,
                   failed_to_converge, failed_solves, config, u, pc, solver>>
    /\ UNCHANGED activation_vars

\* self.Jblocks_all = self.get_block_J(self.Fsum_all, u).
GetBlockJ ==
    /\ phase = "initializing"
    /\ LET r == get_block_J(Fsum, NumBlocks)
       IN  /\ Jlist' = IF r.raised = "none" THEN r.Jlist ELSE Jlist
           /\ raised' = r.raised
           /\ phase' = IF r.raised = "none" THEN phase ELSE "raised"
    /\ called' = <<"get_block_J">>
    /\ UNCHANGED <<all_meshes, Fsum, Flist, mesh>>
    /\ UNCHANGED <<t, tn, dt, final_t, idx, tvec, dtvec, idx_nl, idx_l, reset_dt,
                   failed_to_converge, failed_solves, config, u, pc, solver>>
    /\ UNCHANGED activation_vars

\* self.get_mesh_by_id(mesh_id).
GetMeshById(mesh_id) ==
    /\ phase = "initializing"
    /\ LET r == get_mesh_by_id(all_meshes, mesh_id)
       IN  /\ mesh' = r.mesh
           /\ raised' = r.raised
           /\ phase' = IF r.raised = "none" THEN phase ELSE "raised"
    /\ called' = <<"get_mesh_by_id", mesh_id>>
    /\ UNCHANGED <<all_meshes, Fsum, Flist, Jlist>>
    /\ UNCHANGED <<t, tn, dt, final_t, idx, tvec, dtvec, idx_nl, idx_l, reset_dt,
                   failed_to_converge, failed_solves, config, u, pc, solver>>
    /\ UNCHANGED activation_vars

\* The partitions of the total residual of a model with n compartments: at
\* least one block, at most one block per compartment.
Residuals(n) ==
    LET Blocks == [part : 0..(n - 1), form : Forms, coupled : BOOLEAN]
    IN  {F \in SUBSET Blocks :
            /\ F # {}
            /\ \A x, y \in F : x.part = y.part => x = y}

\* initialize() has set up the active compartments and the forms.
InitBlocks ==
    /\ Initialized(16, Raw(MaxFinalT), << >>, TRUE, TRUE, TRUE,
                   [k_file |-> <<0, MaxFinalT>>,
                    k_file_preint |-> <<0, MaxFinalT>>])
    /\ phase = "initializing"
    /\ \E n \in 1..MaxBlocks :
          /\ cc = [k \in 1..n |->
                      [num_species |-> 1, num_vertices |-> 2,
                       dof_index |-> k - 1]]
          /\ active_compartments = [k \in 1..n |-> k]
          /\ all_compartments = [k \in 1..n |-> k]
          /\ Fsum \in Residuals(n)
    /\ activations = 1
    /\ all_meshes \in MeshOrders
    /\ Flist = << >>
    /\ Jlist = << >>
    /\ mesh = NoMesh
    /\ called = <<"none">>

NextBlocks ==
    \/ GetBlockF
    \/ GetBlockJ
    \/ \E mesh_id \in MeshIds \cup {12} : GetMeshById(mesh_id)

SpecBlocks == InitBlocks /\ [][NextBlocks]_vars

(***************************************************************************)
(* Properties.                                                             *)
(***************************************************************************)
RECURSIVE SumFrom(_, _)
\* s[k] + ... + s[Len(s)].
SumFrom(s, k) == IF k > Len(s) THEN 0 ELSE s[k] + SumFrom(s, k + 1)

\* No attempt is in flight: the histories hold the accepted steps only.
Settled == phase \in {"idle", "retry"}

\* A step of the model that starts a first (non-retry) attempt.
FirstAttemptStarts ==
    /\ phase = "idle"
    /\ ~failed_to_converge
    /\ phase' # "idle"
    /\ raised' # "AssertionError"

\* C1: Monotonic clock.  Started at t = 0, the time after every accepted step
\* is strictly greater than the time after the previous one, tvec[k] =
\* tvec[k-1] + dtvec[k] for every accepted step k, and t is the sum of the dt
\* of the accepted steps: failed attempts contribute nothing.
C1_MonotonicClock ==
    Settled =>
        /\ Len(tvec) = Len(dtvec)
        /\ tvec[1] = 0
        /\ \A k \in 2..Len(tvec) :
              /\ tvec[k] > tvec[k - 1]
              /\ tvec[k] = tvec[k - 1] + dtvec[k]
        /\ t = Last(tvec)
        /\ t = SumFrom(dtvec, 2)

\* Two steps were accepted, with failed attempts in the same run.
C1_Witness ==
    /\ phase = "idle"
    /\ Len(tvec) >= 3
    /\ Len(failed_solves) >= 1

\* C2: Final-time clipping.  At the start of every non-retry attempt the
\* final-time adjustment sets dt to final_t - t if t + dt > final_t and leaves
\* it unchanged otherwise; with no checkpoints configured the dt of the
\* attempt is the current dt or the clipped value.
C2_FinalTimeClipping ==
    [][FirstAttemptStarts =>
          /\ dt' = IF t + Prescribed.dt > final_t
                   THEN final_t - t ELSE Prescribed.dt
          /\ config.adjust_dt = << >> =>
                dt' = IF t + dt > final_t THEN final_t - t ELSE dt]_vars

\* An attempt whose dt was clipped, so that it ends at the final time.
C2_Witness ==
    /\ phase = "solving"
    /\ config.adjust_dt = << >>
    /\ t = final_t
    /\ Len(dtvec) >= 3
    /\ Last(dtvec) < dtvec[Len(dtvec) - 1]
    /\ failed_solves = << >>

\* The head checkpoint, quantized as adjust_dt_if_prescribed reads it.
HeadT == rounded_decimal(config.adjust_dt[1][1])
HeadDt == rounded_decimal(config.adjust_dt[1][2])

\* A full step from t would reach or pass the head checkpoint.
WouldCross ==
    /\ config.adjust_dt # << >>
    /\ t < HeadT
    /\ HeadT <= t + dt

\* The final-time adjustment as the clipping of a proposed dt d.
Clipped(d) == IF t + d > final_t THEN final_t - t ELSE d

\* C3: Checkpoint exactness.  A step that would cross the head checkpoint
\* (with dt_adjust <= t_adjust - t) is shrunk so that it ends exactly at
\* t_adjust, the checkpoint stays queued and reset_dt is set; the step after
\* it pops the checkpoint and runs with dt_adjust.  Stated on the states
\* between calls: while a deferred checkpoint (within the final time) waits
\* for its reset, the clock stands exactly at its time.
C3_CheckpointExactness ==
    (/\ phase = "idle"
     /\ reset_dt
     /\ config.adjust_dt # << >>
     /\ HeadT <= final_t)
        => t = HeadT

\* C4: Early honoring.  When t < t_adjust <= t + dt at the start of a first
\* attempt: if dt_adjust > t_adjust - t the dt becomes dt_adjust, the head
\* checkpoint is removed in the same call and reset_dt is left False;
\* otherwise dt becomes t_adjust - t, the checkpoint stays queued and
\* reset_dt becomes True.  Only the head checkpoint is affected.
C4_EarlyHonoring ==
    [][(FirstAttemptStarts /\ WouldCross) =>
          IF HeadDt > HeadT - t
          THEN /\ Prescribed.dt = HeadDt
               /\ dt' = Clipped(HeadDt)
               /\ config'.adjust_dt = Tail(config.adjust_dt)
               /\ reset_dt' = FALSE
          ELSE /\ Prescribed.dt = HeadT - t
               /\ dt' = Clipped(HeadT - t)
               /\ config'.adjust_dt = config.adjust_dt
               /\ reset_dt' = TRUE]_vars

\* The first attempt honored the checkpoint (2, 5) early: it runs with dt = 5
\* and passes the checkpoint, whose successor is still queued.
C4_Witness ==
    /\ phase = "solving"
    /\ tn = 0
    /\ t = 5
    /\ dt = 5
    /\ config.adjust_dt = << <<30, 10>> >>
    /\ ~reset_dt

\* new is old * 0.2 rounded to the nearest tick.
ShrunkFrom(new, old) == 5 * new - old <= 2 /\ old - 5 * new <= 2

\* A step of the model in which an attempt is rolled back for a retry.
RollsBack == phase = "solved" /\ phase' = "retry"

\* A step of the model that handles the solver's result on the SNES path.
AfterSolve == phase = "solved" /\ config.use_snes /\ phase' # "solved"

\* Some component of the solution in u["u"] is below the tolerance -1e-6.
TooNegative == \E c \in Compartments : u["u"][c] < 0 - 100

\* u["u"] with its negative components set to zero.
ClampedU == [c \in Compartments |-> IF u["u"][c] < 0 THEN 0 ELSE u["u"][c]]

\* C5 as stated: after a failed attempt and the resulting reset_timestep, t,
\* dt and the solution fields u equal their values immediately before the
\* failed attempt began.
C5_RollbackRestoresAll ==
    [][RollsBack => (t' = tn /\ dt' = dt /\ u'["u"] = u["n"])]_vars

\* C5, amended: an attempt starts from u = n and saves its time in tn, the
\* solve leaves tn, dt and n alone, and the rollback sets t and u back to the
\* values they had when the attempt began; dt is not restored but set to the
\* failed attempt's dt times 0.2, quantized.
C5_RollbackRestoresTimeAndSolution ==
    [][/\ (Settled /\ phase' = "stepped") =>
              (tn' = t /\ u' = u /\ u["u"] = u["n"])
       /\ (phase = "stepped" /\ phase' = "solving") =>
              (tn' = tn /\ dt' = dt /\ u' = u)
       /\ (phase = "solving" /\ phase' = "solved") =>
              (tn' = tn /\ dt' = dt /\ u'["n"] = u["n"])
       /\ RollsBack =>
              /\ t' = tn
              /\ u'["u"] = u["n"]
              /\ u'["n"] = u["n"]
              /\ ShrunkFrom(dt', dt)
              /\ dt' < dt]_vars

\* An attempt that followed an accepted step has been rolled back.
C5_Witness ==
    /\ phase = "retry"
    /\ idx >= 1
    /\ u["u"] = Solution(5, 5)
    /\ dt >= 1

\* C6: reset_timestep sets t to the second-to-last entry of tvec, dt to the
\* failed dt times 0.2 (quantized), removes the attempt's entries of tvec,
\* dtvec, idx_nl and idx_l, decrements idx and appends exactly one record
\* (idx of the failed attempt, its nonlinear and linear iterations, the
\* failed t and dt, the converged reason) to failed_solves.
C6_ResetTimestep ==
    [][RollsBack =>
          /\ t' = tvec[Len(tvec) - 1]
          /\ ShrunkFrom(dt', dt)
          /\ tvec' = ButLast(tvec)
          /\ dtvec' = ButLast(dtvec)
          /\ idx_nl' = idx_nl
          /\ Len(idx_nl') = idx'
          /\ idx_l' = idx_l
          /\ Len(idx_l') = idx'
          /\ idx' = idx - 1
          /\ failed_solves' =
                Append(failed_solves,
                       <<idx, solver.its, solver.ksp_its, t, dt, solver.reason>>)]_vars

\* Two attempts in a row were rolled back after an accepted step.
C6_Witness ==
    /\ phase = "retry"
    /\ idx >= 1
    /\ Len(failed_solves) >= 2
    /\ failed_solves[Len(failed_solves)][1] = failed_solves[1][1]

\* C7 as stated: with reset_timestep_for_negative_solution on, a solution
\* with a component below the tolerance is rejected, rolled back and retried
\* with the shrunk dt, n not being overwritten; a solution whose negative
\* components are all within the tolerance has them set to 0 and the step is
\* accepted.  With the option off the negativity of the solution neither
\* rejects nor clamps.
C7_NegativePolicy ==
    [][AfterSolve =>
          IF config.reset_timestep_for_negative_solution
          THEN IF TooNegative
               THEN /\ phase' = "retry"
                    /\ u'["n"] = u["n"]
                    /\ ShrunkFrom(dt', dt)
               ELSE /\ phase' = "idle"
                    /\ u'["u"] = ClampedU
          ELSE /\ phase' = "retry" => ~solver.converged
               /\ phase' # "retry" => u'["u"] = u["u"]]_vars

\* C7, amended: as stated, but a solution within the tolerance is accepted
\* only if the solve converged; if it diverged the components are clamped
\* all the same and the divergence policy decides (rollback and retry, or
\* RuntimeError).
C7_NegativePolicyAmended ==
    [][AfterSolve =>
          IF config.reset_timestep_for_negative_solution
          THEN IF TooNegative
               THEN /\ phase' = "retry"
                    /\ u'["n"] = u["n"]
                    /\ ShrunkFrom(dt', dt)
               ELSE /\ solver.converged =>
                          (phase' = "idle" /\ u'["u"] = ClampedU
                                           /\ u'["n"] = ClampedU)
                    /\ ~solver.converged =>
                          /\ phase' \in {"retry", "raised"}
                          /\ phase' = "raised" => u'["u"] = ClampedU
          ELSE /\ phase' = "retry" => ~solver.converged
               /\ phase' # "retry" => u'["u"] = u["u"]]_vars

\* With the option on, one attempt was rejected and a later one accepted
\* with its slightly negative components set to zero.
C7_Witness ==
    /\ phase = "idle"
    /\ config.reset_timestep_for_negative_solution
    /\ u["u"] = Solution(0, 0)
    /\ failed_solves # << >>
    /\ solver.converged

\* The handling of a failed attempt by rollback and retry.
Retried ==
    /\ phase' = "retry"
    /\ failed_to_converge'
    /\ t' = tn
    /\ idx' = idx - 1
    /\ Len(failed_solves') = Len(failed_solves) + 1

\* The flag is cleared by converged attempts only.
ClearedByConvergence ==
    (failed_to_converge /\ ~failed_to_converge') =>
        (phase = "solved" /\ solver.converged /\ phase' = "idle")

\* C8 as stated: whenever the solve of an attempt fails to converge,
\* monolithic_solve raises if attempt_timestep_restart_on_divergence is
\* False, and otherwise rolls back, sets _failed_to_converge and retries;
\* the flag is cleared again only by a converged attempt.
C8_DivergencePolicy ==
    [][/\ (AfterSolve /\ ~solver.converged) =>
              IF config.attempt_timestep_restart_on_divergence
              THEN Retried
              ELSE phase' = "raised" /\ raised' = "RuntimeError"
       /\ ClearedByConvergence]_vars

\* C8, amended: as stated for an attempt that the negativity check has not
\* rejected; an attempt it has rejected (option on, a component below the
\* tolerance) is rolled back and retried whatever the restart option says.
C8_DivergencePolicyAmended ==
    [][/\ (AfterSolve /\ ~solver.converged) =>
              IF config.reset_timestep_for_negative_solution /\ TooNegative
              THEN Retried
              ELSE IF config.attempt_timestep_restart_on_divergence
              THEN Retried
              ELSE phase' = "raised" /\ raised' = "RuntimeError"
       /\ ClearedByConvergence]_vars

\* A diverged attempt was retried and the retry converged, clearing the flag.
C8_Witness ==
    /\ phase = "idle"
    /\ ~failed_to_converge
    /\ config.attempt_timestep_restart_on_divergence
    /\ ~config.reset_timestep_for_negative_solution
    /\ failed_solves # << >>

\* C9 as stated: with attempt_timestep_restart_on_divergence disabled no
\* attempt is ever rolled back and retried, whatever made it fail.
C9_NoRetryWhenRestartDisabled ==
    ~config.attempt_timestep_restart_on_divergence =>
        (failed_solves = << >> /\ phase # "retry")

\* C9, amended: with the restart option disabled an attempt is rolled back
\* and retried exactly when the negativity option is on and the solution has
\* a component below the tolerance (also if the solve diverged); every other
\* attempt whose solve diverged is fatal, a RuntimeError.
C9_FatalUnlessNegativeRetry ==
    [][(AfterSolve /\ ~config.attempt_timestep_restart_on_divergence) =>
          /\ phase' = "retry" <=>
                (config.reset_timestep_for_negative_solution /\ TooNegative)
          /\ (~solver.converged /\ phase' # "retry") =>
                (phase' = "raised" /\ raised' = "RuntimeError"
                    /\ failed_solves' = failed_solves)]_vars

\* With restarts disabled, an attempt whose solve diverged was retried
\* because its solution was too negative.
C9_Witness ==
    /\ phase = "retry"
    /\ ~config.attempt_timestep_restart_on_divergence
    /\ ~solver.converged
    /\ failed_solves # << >>

\* C10: a rejected step does not persist any parameter mutation: between
\* attempts every time-dependent parameter has been mutated exactly once per
\* accepted step, so its value_vector holds the initial row and one row per
\* accepted step, its value is the one of the last accepted step, and the
\* running integral int_vec holds one entry per accepted step.
C10_ParametersOncePerAcceptedStep ==
    Settled =>
        \A p \in ParameterNames :
            parameters[p].is_time_dependent =>
                /\ Len(pc[p].value_vector) = idx + 1
                /\ Last(pc[p].value_vector) = <<t, pc[p].value>>
                /\ (parameters[p].use_preintegration
                        /\ ~parameters[p].has_preint_sym_expr) =>
                      Len(pc[p].int_vec) = idx + 1

\* C11: Solution-state discipline.  n is overwritten only when a step is
\* accepted, and then by u in all compartments at once; u is set back to n
\* by the rollback, and outside a rollback it is written by the solver and
\* by the clamping of its negative components only; so every attempt, a
\* retry included, starts from u = n, the last accepted solution.
C11_SolutionStateDiscipline ==
    [][/\ u'["n"] # u["n"] => (phase = "solved" /\ phase' = "idle")
       /\ (phase = "solved" /\ phase' = "idle") => u'["n"] = u'["u"]
       /\ RollsBack => (u'["u"] = u["n"] /\ u'["n"] = u["n"])
       /\ (phase # "solving" /\ ~RollsBack) => u'["u"] \in {u["u"], ClampedU}
       /\ phase' \in {"idle", "retry", "stepped", "solving"} =>
              u'["u"] = u'["n"]]_vars

\* A retry has started after an accepted step whose solution was clamped,
\* the rejected solution of the failed attempt being different from it.
C11_Witness ==
    /\ phase = "stepped"
    /\ failed_to_converge
    /\ Len(tvec) >= 3
    /\ u["n"] = Solution(0, 5)
    /\ u["u"] = Solution(0, 5)

\* C12 as stated, for the runs that are configured with a positive initial
\* dt: dt > 0 in every reachable state; no sequence of dt adjustments
\* (checkpoint reset, final-time clipping, rollback shrink by 0.2 with
\* quantization) leaves the stored dt at zero or negative.
C12_DtAlwaysPositive == dtvec[1] > 0 => dt > 0

\* C12, amended: the clock is only ever advanced with dt > 0, so an attempt
\* in flight has dt > 0 and the dt of every recorded step is positive; the
\* stored dt itself can be zero between attempts (a rollback shrinks a dt of
\* at most two ticks to 0, the clipping at t = final_t gives 0), and a retry
\* that finds dt <= 0 raises ValueError and leaves the clock alone.
C12_DtPositiveWhenClockAdvances ==
    [][/\ phase' \in {"stepped", "solving", "solved"} => dt' > 0
       /\ \A k \in 2..Len(dtvec') : dtvec'[k] > 0
       /\ (phase = "retry" /\ dt <= 0) =>
              /\ phase' = "raised"
              /\ raised' = "ValueError"
              /\ t' = t
              /\ tvec' = tvec
              /\ dtvec' = dtvec]_vars

\* A run with a positive initial dt whose rollback has shrunk dt to zero:
\* the retry was refused.
C12_Witness ==
    /\ phase = "raised"
    /\ raised = "ValueError"
    /\ dtvec[1] > 0
    /\ failed_solves # << >>
    /\ dt = 0

\* The failed attempts of step number n that failed_solves records.
FailedAttemptsOf(n) ==
    Cardinality({k \in DOMAIN failed_solves : failed_solves[k][1] = n})

\* C13: recoverable failures are transparent to the caller.  A call of
\* monolithic_solve is a sequence of attempts: each attempt increments idx
\* and appends one entry to tvec and dtvec, each failed attempt takes them
\* back and appends exactly one record to failed_solves, and nothing else
\* changes them; so when the call returns after k failed attempts idx is
\* one more than at the call, tvec and dtvec have one more entry (the
\* accepted t and dt), _failed_to_converge is False and failed_solves has
\* k more records, those of this step.
C13_TransparentRetries ==
    [][/\ (Settled /\ phase' = "stepped") =>
              /\ idx' = idx + 1
              /\ Len(tvec') = Len(tvec) + 1
              /\ Len(dtvec') = Len(dtvec) + 1
              /\ failed_solves' = failed_solves
       /\ (phase \in {"stepped", "solving"} /\ phase' \in {"solving", "solved"}) =>
              UNCHANGED <<idx, tvec, dtvec, failed_solves>>
       /\ RollsBack =>
              /\ idx' = idx - 1
              /\ tvec' = ButLast(tvec)
              /\ dtvec' = ButLast(dtvec)
              /\ Len(failed_solves') = Len(failed_solves) + 1
              /\ Last(failed_solves')[1] = idx
              /\ failed_to_converge'
       /\ (phase = "solved" /\ phase' = "idle") =>
              /\ UNCHANGED <<idx, tvec, dtvec, failed_solves>>
              /\ Last(tvec') = t'
              /\ Last(dtvec') = dt'
              /\ ~failed_to_converge'
       /\ phase' = "idle" =>
              /\ Len(tvec') = idx' + 1
              /\ Len(dtvec') = idx' + 1
              /\ \A k \in DOMAIN failed_solves' : failed_solves'[k][1] <= idx'
       /\ phase' = "retry" =>
              /\ Len(tvec') = idx' + 1
              /\ Last(failed_solves')[1] = idx' + 1]_vars

\* A call without failed attempts has returned, and after it a call with a
\* failed attempt.
C13_Witness ==
    /\ phase = "idle"
    /\ idx = 2
    /\ ~failed_to_converge
    /\ FailedAttemptsOf(1) = 0
    /\ FailedAttemptsOf(2) = 1

\* C14: on a fatal error the recorded run state is the last successfully
\* recorded step.  Whenever monolithic_solve raises (divergence with the
\* restart disabled, dt <= 0, an error of the parameter update), t, idx,
\* tvec and dtvec hold the values of the last accepted step, without an
\* entry for the attempt that failed: the values they had when the attempt
\* began, which for an attempt in flight are tn, idx - 1 and the histories
\* without their last entry.
C14_FatalErrorKeepsLastAcceptedStep ==
    [][phase' = "raised" =>
          IF Settled
          THEN t' = t /\ idx' = idx /\ tvec' = tvec /\ dtvec' = dtvec
          ELSE /\ t' = tn
               /\ idx' = idx - 1
               /\ tvec' = ButLast(tvec)
               /\ dtvec' = ButLast(dtvec)]_vars

\* C15: update_time_dependent_parameters never mutates the simulation
\* clock.  Whether the call returns or raises, and whatever the kinds of
\* the parameters, t, tn, dt, idx, tvec, dtvec, the checkpoint queue and
\* reset_dt are the same after the call as before it, and so is every
\* parameter that is not time dependent.
C15_UpdateLeavesClockAlone ==
    [][(phase = "stepped" /\ phase' # "stepped") =>
          /\ UNCHANGED <<t, tn, dt, idx, tvec, dtvec, reset_dt>>
          /\ config'.adjust_dt = config.adjust_dt
          /\ \A p \in ParameterNames :
                ~parameters[p].is_time_dependent => pc'[p] = pc[p]]_vars

\* The update has returned twice and raised in its third call, after a
\* parameter before the failing one was updated, with a checkpoint queued.
C15_Witness ==
    /\ phase = "raised"
    /\ raised = "Exception"
    /\ Len(pc["k_expr"].value_vector) >= 4
    /\ config.adjust_dt # << >>

\* The parameters that are read from a data file.
FileParameters == {p \in ParameterNames : parameters[p].type = "from_file"}

\* x lies outside the time range of the data of parameter p.
Unsampled(p, x) ==
    \/ x < pc[p].sampling_data[1][1]
    \/ x > Last(pc[p].sampling_data)[1]

\* A lookup time of parameter p lies outside the time range of its data:
\* t on the direct path, t or tn on the pre-integrated path.
OutOfRange(p) ==
    \/ Unsampled(p, t)
    \/ parameters[p].use_preintegration /\ Unsampled(p, tn)

\* C16: no extrapolation and no NaN substitution for tabulated parameters.
\* If a lookup time of a from_file parameter lies outside the sampled time
\* range, update_time_dependent_parameters raises and the parameter keeps
\* its previous value; if all lookup times are sampled and the call returns,
\* the parameter has a new row with its value at t; NaN is never the value
\* of a parameter.
C16_NoExtrapolationNoNaN ==
    [][/\ (phase = "stepped" /\ phase' # "stepped") =>
              \A p \in FileParameters :
                  /\ OutOfRange(p) =>
                        /\ phase' = "raised"
                        /\ raised' \in {"Exception", "AssertionError"}
                        /\ pc'[p] = pc[p]
                  /\ (~OutOfRange(p) /\ phase' = "solving") =>
                        /\ Len(pc'[p].value_vector) = Len(pc[p].value_vector) + 1
                        /\ Last(pc'[p].value_vector) = <<t, pc'[p].value>>
       /\ \A p \in ParameterNames :
              /\ pc'[p].value # NaN
              /\ \A k \in DOMAIN pc'[p].value_vector :
                    pc'[p].value_vector[k][2] # NaN]_vars

\* The data of k_file_preint start after the time tn of the first step:
\* the update has raised after k_file was updated, k_file_preint keeping
\* its value.
C16_Witness ==
    /\ phase = "raised"
    /\ raised = "AssertionError"
    /\ Unsampled("k_file_preint", tn)
    /\ ~Unsampled("k_file_preint", t)
    /\ Len(pc["k_file"].value_vector) = 2
    /\ Len(pc["k_file_preint"].value_vector) = 1

\* The time-dependent parameters of constant rate: updated on the direct
\* path, by the running numerical integral and by the antiderivative.
ConstantRateParameters == {"k_direct", "k_preint", "k_preint_lin"}

\* C17: pre-integration consistency.  For the parameters of constant rate
\* c the direct path and both pre-integrated paths assign the same value c
\* in every call of update_time_dependent_parameters that returns, whatever
\* the dt of the attempt, also in a retry after a rollback.
C17_PreintegrationConsistency ==
    [][(phase = "stepped" /\ phase' = "solving") =>
          \A p \in ConstantRateParameters :
              /\ pc'[p].value = ConstantRate
              /\ Last(pc'[p].value_vector) = <<t, ConstantRate>>
              /\ Len(pc'[p].value_vector) = Len(pc[p].value_vector) + 1]_vars

\* The parameters were updated in a retry whose dt differs from the dt of
\* the attempt that failed and from the dt of the step accepted before.
C17_Witness ==
    /\ phase = "solving"
    /\ failed_to_converge
    /\ Len(dtvec) = 3
    /\ dtvec[3] # dtvec[2]
    /\ dtvec[3] # Last(failed_solves)[5]
    /\ Len(pc["k_preint"].int_vec) = 4
    /\ \A p \in ConstantRateParameters : pc[p].value = ConstantRate

\* The compartments with at least one species, in the order of their
\* declaration.
WithSpecies ==
    SelectSeq([k \in 1..Len(cc) |-> k], LAMBDA k : cc[k].num_species >= 1)

\* C18: _init_4_1_get_active_compartments leaves as active list exactly the
\* compartments with at least one species, wherever and however many the
\* compartments without species are, gives the compartments of the list the
\* block indices 0, 1, ... in the order of the list, does not change the
\* species of a compartment, and a second call on the same compartments
\* changes nothing.
C18_ActiveCompartments ==
    [][/\ activations' >= 1 =>
              /\ active_compartments' = WithSpecies'
              /\ \A j \in DOMAIN active_compartments' :
                    cc'[active_compartments'[j]].dof_index = j - 1
              /\ all_compartments' = [k \in 1..Len(cc) |-> k]
       /\ Len(cc') = Len(cc)
       /\ \A k \in DOMAIN cc :
              /\ cc'[k].num_species = cc[k].num_species
              /\ cc'[k].num_vertices = cc[k].num_vertices
       /\ activations >= 1 =>
              UNCHANGED <<cc, active_compartments, all_compartments>>]_vars

\* The function was called twice on three compartments, the first two of
\* them without species.
C18_Witness ==
    /\ activations = 2
    /\ Len(cc) = 3
    /\ cc[1].num_species = 0
    /\ cc[2].num_species = 0
    /\ cc[3].num_species = 2
    /\ active_compartments = <<3>>
    /\ cc[3].dof_index = 0

\* C19: the active list is ordered by descending number of unknowns, ties
\* in the order of declaration, so that block index 0 belongs to a
\* compartment with the most unknowns.
C19_DescendingUnknowns ==
    activations >= 1 =>
        \A j, k \in DOMAIN active_compartments :
            j < k =>
                LET a == active_compartments[j]
                    b == active_compartments[k]
                IN  \/ num_dofs(cc[a]) > num_dofs(cc[b])
                    \/ num_dofs(cc[a]) = num_dofs(cc[b]) /\ a < b

\* C20: if no compartment has unknowns, so that the active list is empty,
\* the activation fails with an error instead of returning the empty list.
C20_EmptyActiveSetFails ==
    (activations >= 1 /\ active_compartments = << >>) =>
        (phase = "raised" /\ raised # "none")

\* The derivative of the residual with respect to the function of
\* compartment j, for the test function of compartment i (both counted
\* from 0): empty if the residual has no block for i.
Derivative(i, j) ==
    IF \E b \in Fsum : b.part = i
    THEN derivative(CHOOSE b \in Fsum : b.part = i, j)
    ELSE << >>

\* C21: fixed Jacobian block pattern.  For N active compartments
\* get_block_J returns exactly N*N entries, entry k for the pair (k div N,
\* k mod N); every entry is a non-empty list of forms without None, the
\* empty derivative being the list of one empty rank-2 form; also when the
\* residual has fewer than N blocks.
C21_FixedJacobianPattern ==
    called[1] = "get_block_J" =>
        /\ raised = "none"
        /\ Len(Jlist) = NumBlocks * NumBlocks
        /\ \A k \in DOMAIN Jlist :
              /\ Jlist[k] # << >>
              /\ \A j \in DOMAIN Jlist[k] : Jlist[k][j].kind # "None"
              /\ Derivative((k - 1) \div NumBlocks, (k - 1) % NumBlocks) = << >>
                    => Jlist[k] = << [kind |-> "Form(2, 0)"] >>

\* C22: get_block_F returns one entry per active compartment, in the order
\* of the block indices: the block of the residual that multiplies the test
\* function of compartment k is at index k, split by domain, and an index
\* without a block (or with an empty one) holds the placeholder [None];
\* also when the residual has fewer blocks than active compartments.
C22_ResidualBlocksInPlace ==
    called[1] = "get_block_F" =>
        /\ raised = "none"
        /\ Len(Flist) = NumBlocks
        /\ \A k \in DOMAIN Flist :
              IF \E b \in Fsum : b.part = k - 1 /\ b.form # << >>
              THEN LET b == CHOOSE x \in Fsum : x.part = k - 1
                   IN  /\ Len(Flist[k]) = Len(b.form)
                       /\ \A j \in DOMAIN b.form :
                             Flist[k][j] = [kind |-> "Form",
                                            mesh_id |-> b.form[j].mesh_id]
              ELSE Flist[k] = << [kind |-> "None"] >>

\* Of two active compartments only the second has a block in the residual:
\* the first index holds the placeholder.
C22_Witness ==
    /\ called[1] = "get_block_F"
    /\ NumBlocks = 2
    /\ Cardinality(Fsum) = 1
    /\ \A b \in Fsum : b.part = 1 /\ Len(b.form) = 2
    /\ Flist[1] = << [kind |-> "None"] >>
    /\ Len(Flist[2]) = 2

\* C24: get_mesh_by_id returns the mesh with the given id whenever a
\* registered mesh has that id, whatever the order of the meshes, and
\* raises ValueError only when none has it.
C24_MeshById ==
    called[1] = "get_mesh_by_id" =>
        IF \E k \in DOMAIN all_meshes : all_meshes[k] = called[2]
        THEN raised = "none" /\ mesh = called[2]
        ELSE raised = "ValueError"

\* C23: ordering within every attempt.  The dt of the attempt is fixed
\* first (by the checkpoint and final-time adjustments on a first attempt;
\* a retry skips them and uses the dt that the rollback left, with the
\* checkpoint queue and reset_dt as they are), then the clock is advanced
\* by that dt; then the time-dependent parameters are updated with the
\* advanced t and that dt; only then the solver is called; n is written
\* only after the solve.
C23_OrderWithinAttempt ==
    [][/\ phase' = "stepped" =>
              /\ Settled
              /\ dt' = ProposedDt
              /\ t' = t + dt'
              /\ tn' = t
              /\ pc' = pc
              /\ failed_to_converge =>
                    /\ dt' = dt
                    /\ config' = config
                    /\ reset_dt' = reset_dt
       /\ phase' = "solving" =>
              /\ phase = "stepped"
              /\ UNCHANGED <<t, dt, tn>>
              /\ \A p \in ParameterNames :
                    parameters[p].is_time_dependent =>
                        /\ pc'[p] = update_parameter(p, pc[p], t, dt, tn)
                        /\ Last(pc'[p].value_vector)[1] = t
       /\ solver' # solver => (phase = "solving" /\ pc' = pc)
       /\ phase' = "solved" => phase = "solving"
       /\ u' # u => phase \in {"solving", "solved"}
       /\ u'["n"] # u["n"] => phase = "solved"]_vars

\* The solver has returned in a retry that started one tick after the
\* accepted time, the parameters being those of the advanced time.
C23_Witness ==
    /\ phase = "solved"
    /\ failed_to_converge
    /\ dt = 1
    /\ tn >= 1
    /\ t = tn + 1
    /\ pc["k_expr"].value = t + 1
    /\ solver.converged

\* C25: retry termination.  Within a call the dt of the attempts never
\* grows and every rollback makes it strictly smaller without making it
\* negative, so after finitely many consecutive failures (at most two for
\* a dt of up to 12 ticks) dt is zero; the retry that finds dt <= 0 raises
\* ValueError before the clock is advanced, t being the last accepted time.
C25_RetryTermination ==
    [][/\ RollsBack => (dt' < dt /\ dt' >= 0)
       /\ (phase = "retry" /\ phase' = "stepped") => dt' = dt
       /\ (phase \in {"stepped", "solving"} /\ phase' # "raised") => dt' = dt
       /\ (phase = "retry" /\ dt <= 0) =>
              /\ phase' = "raised"
              /\ raised' = "ValueError"
              /\ UNCHANGED <<t, tn, tvec, dtvec, u>>
              /\ t = Last(tvec)
       /\ phase' = "retry" =>
              /\ FailedAttemptsOf(idx + 1)' <= 2
              /\ FailedAttemptsOf(idx + 1)' = 2 => dt' = 0]_vars

\* With restarts on divergence enabled, two attempts in a row failed after
\* an accepted step and the third was refused.
C25_Witness ==
    /\ phase = "raised"
    /\ raised = "ValueError"
    /\ config.attempt_timestep_restart_on_divergence
    /\ ~config.reset_timestep_for_negative_solution
    /\ idx = 2
    /\ FailedAttemptsOf(2) = 2
    /\ t = Last(tvec)
    /\ t > 0

\* C26: pending-reset flag consistency.  At the start of a non-retry
\* attempt, if reset_dt is True a checkpoint is queued and t is the time of
\* the head checkpoint (for a checkpoint within the final time: a step to a
\* later checkpoint is clipped at final_t), also when the attempt that set
\* the flag failed and was retried with a smaller dt.
C26_PendingResetAtCheckpoint ==
    (phase = "idle" /\ ~failed_to_converge /\ reset_dt) =>
        /\ config.adjust_dt # << >>
        /\ HeadT <= final_t => t = HeadT

\* C27: the checkpoints of every configuration are strictly increasing and
\* later than the start time; no call of monolithic_solve then raises the
\* AssertionError "tadjust is smaller than current time", and between calls
\* the head checkpoint is never earlier than the clock.
C27_CheckpointNeverPassed ==
    [][/\ Settled => ~(phase' = "raised" /\ raised' = "AssertionError")
       /\ (phase' = "idle" /\ config'.adjust_dt # << >>) => t' <= HeadT']_vars

\* C28: history bookkeeping on the SNES path.  Between calls of
\* monolithic_solve, after any sequence of accepted steps, failed attempts
\* and retries, tvec and dtvec have idx + 1 entries, idx_nl and idx_l have
\* idx entries, and the last entry of tvec is the current t.
C28_HistoryBookkeeping ==
    (phase = "idle" /\ config.use_snes) =>
        /\ Len(tvec) = idx + 1
        /\ Len(dtvec) = idx + 1
        /\ Len(idx_nl) = idx
        /\ Len(idx_l) = idx
        /\ Last(tvec) = t

\* Two calls have returned on the SNES path, one of them after a failed
\* attempt and a retry.
C28_Witness ==
    /\ phase = "idle"
    /\ config.use_snes
    /\ idx = 2
    /\ Len(idx_nl) = 2
    /\ Len(failed_solves) >= 1

\* C29: at every call of update_time_dependent_parameters, on a first
\* attempt and on a retry, t = tn + dt exactly and tn is the last accepted
\* time, so that [tn, t] is the interval the attempt integrates.
C29_UpdateInterval ==
    phase = "stepped" =>
        /\ t = tn + dt
        /\ dt > 0
        /\ tn = tvec[Len(tvec) - 1]
        /\ t = Last(tvec)
        /\ dt = Last(dtvec)

\* update_time_dependent_parameters is about to be called in a retry, after
\* an accepted step and a rollback.
C29_Witness ==
    /\ phase = "stepped"
    /\ failed_to_converge
    /\ idx = 2
    /\ FailedAttemptsOf(2) >= 1
    /\ tn > 0
    /\ dt < failed_solves[Len(failed_solves)][5]

\* C30: the clock never passes the final time.  Started at t <= final_t,
\* every step of the engine (an attempt, a rollback, a retry that skips the
\* final-time adjustment, a step with the dt of a checkpoint honored early)
\* leaves t <= final_t, and a call of monolithic_solve started at
\* t = final_t raises ValueError without advancing t.
C30_ClockWithinFinalTime ==
    [][/\ t <= final_t => t' <= final_t'
       /\ (phase = "idle" /\ t = final_t) =>
              /\ phase' = "raised"
              /\ raised' = "ValueError"
              /\ t' = t]_vars

====
